---- MODULE Spec2Model ----
(***************************************************************************)
(* The Jaco2 hardware interface (abr_jaco2/interface/interface.py) and the *)
(* two control-loop drivers built on it (examples/adaptive_reach.py and    *)
(* examples/control_loop_speed_test.py).                                   *)
(*                                                                         *)
(* Time is counted in microseconds.  Angles on the hardware side are whole *)
(* degrees; angles on the controller side are fixed-point radians in units *)
(* of 1e-4 rad.                                                            *)
(***************************************************************************)
EXTENDS Integers, Sequences, FiniteSets, TLC

\* ------------------------------------------------------------- bounds
\* Ticks of the control loop a run may start.
MaxTicks == 2
\* Transport faults / thrown computations injected in one run.
MaxFaults == 2
\* Interface calls made by the free caller of SpecIface.
MaxCalls == 3
\* Latency of a call that returns promptly (1 ms).
Nominal == 1000
\* Latency of a call that stalls (10 s): longer than the command window.
Slow == 10000000

\* -------------------------------------------------- program constants
\* "if a torque is not applied every 200ms then the arm reverts"
CommandWindow == 200000
\* adaptive_reach.py: time_limit = 30 (seconds)
time_limit == 30000000
\* control_loop_speed_test.py: while run_time<10 (seconds)
run_limit == 10000000
\* control_loop_speed_test.py: avg_loop > 0.005 and avg_loop > 0.0035 (seconds)
WarnLimit == 5000
NoticeLimit == 3500
\* number of joints of the arm (the six entries of u_adapt)
N_JOINTS == 6
\* np.pi and 2 * np.pi in units of 1e-4 rad
PI == 31416
TWO_PI == 2 * PI

Latencies == {Nominal, Slow}

\* ------------------------------------------------------ hardware link
\* The opaque driver jaco2_rs485.pyJaco2: its control mode, the time since
\* the force-mode watchdog was last fed, the number of autonomous fallbacks
\* to position control, and the last position target it was given.
Modes == {"Uninitialized", "Connected", "PositionControl", "ForceControl"}

NoTarget == << >>

\* What the arm can report: joint angles in degrees (negative, and a full turn
\* or more, included) and joint velocities in degrees/sec.
RawReadings ==
  { [q |-> <<0, 90, 180, 270, 359, 360>>, dq |-> <<0, 1, -1, 720, -720, 30>>],
    [q |-> <<-1, -90, -360, -725, 725, 361>>, dq |-> <<-400, 0, 57, -57, 360, -1>>],
    [q |-> <<45, -180, 1080, -359, 540, 1>>, dq |-> <<5, -5, 180, -180, 0, 2>>] }

LinkInit(pose) ==
  [mode |-> "Uninitialized", idle |-> 0, fallbacks |-> 0, target |-> NoTarget,
   pose |-> pose]

\* d microseconds pass on the link: in force mode the watchdog counts them and
\* reverts the arm to position control once the window is exceeded.
Elapse(l, d) ==
  IF l.mode = "ForceControl"
  THEN IF l.idle + d > CommandWindow
       THEN [l EXCEPT !.mode = "PositionControl", !.idle = 0,
                      !.fallbacks = @ + 1]
       ELSE [l EXCEPT !.idle = @ + d]
  ELSE l

\* Every primitive takes the link, the latency d of the call and whether the
\* transport fails (f), and gives the link afterwards and whether it raised.
Failed(l, d) == [link |-> Elapse(l, d), raised |-> TRUE, ret |-> << >>]

Done(l) == [link |-> l, raised |-> FALSE, ret |-> << >>]

Connect(l, d, f) ==
  IF f THEN Failed(l, d)
  ELSE LET m == Elapse(l, d)
       IN  Done([m EXCEPT !.mode =
                   IF @ = "Uninitialized" THEN "Connected" ELSE @])

Disconnect(l, d, f) ==
  IF f THEN Failed(l, d)
  ELSE Done([Elapse(l, d) EXCEPT !.mode = "Uninitialized", !.idle = 0])

InitPositionMode(l, d, f) ==
  IF f \/ l.mode = "Uninitialized" THEN Failed(l, d)
  ELSE Done([Elapse(l, d) EXCEPT !.mode = "PositionControl", !.idle = 0])

InitForceMode(l, d, f) ==
  IF f \/ l.mode = "Uninitialized" THEN Failed(l, d)
  ELSE Done([Elapse(l, d) EXCEPT !.mode = "ForceControl", !.idle = 0])

\* A torque command feeds the watchdog only while the arm is in force mode;
\* in any other mode the hardware takes the frame and nothing changes.
ApplyU(l, u, d, f) ==
  IF f \/ l.mode = "Uninitialized" THEN Failed(l, d)
  ELSE LET m == Elapse(l, d)
       IN  Done(IF m.mode = "ForceControl" THEN [m EXCEPT !.idle = 0] ELSE m)

ApplyQ(l, q, d, f) ==
  IF f \/ l.mode = "Uninitialized" THEN Failed(l, d)
  ELSE Done([Elapse(l, d) EXCEPT !.target = q])

\* The arm reports its pose: degrees and degrees/sec.
GetFeedback(l, d, f) ==
  IF f \/ l.mode = "Uninitialized" THEN Failed(l, d)
  ELSE [link |-> Elapse(l, d), raised |-> FALSE, ret |-> l.pose]

\* The total of a list of durations.
RECURSIVE SumSeq(_)
SumSeq(s) == IF s = << >> THEN 0 ELSE s[1] + SumSeq(Tail(s))

\* ------------------------------------------------- hardware interface
\* x / y rounded to the nearest unit of the fixed-point grid.
RoundDiv(x, y) == (2 * x + y) \div (2 * y)

\* np.array(...) * np.pi / 180.0
ToRadians(deg) == RoundDiv(deg * PI, 180)

\* np.array(q) * 180.0 / np.pi
ToDegrees(rad) == RoundDiv(rad * 180, PI)

connect(l, d, f) == Connect(l, d, f)

disconnect(l, d, f) == Disconnect(l, d, f)

\* Mutant: the velocities are wrapped into [0, 2 pi) like the positions.
get_feedback_dq_wrapped(l, d, f) ==
  LET r == GetFeedback(l, d, f)
  IN  IF r.raised THEN r
      ELSE [r EXCEPT !.ret =
              [q  |-> [i \in 1..N_JOINTS |-> ToRadians(r.ret.q[i]) % TWO_PI],
               dq |-> [i \in 1..N_JOINTS |->
                         ToRadians(r.ret.dq[i]) % TWO_PI]]]

get_feedback(l, d, f) ==
  LET r == GetFeedback(l, d, f)
  IN  IF r.raised THEN r
      ELSE [r EXCEPT !.ret =
              [q  |-> [i \in 1..N_JOINTS |-> ToRadians(r.ret.q[i]) % TWO_PI],
               dq |-> [i \in 1..N_JOINTS |-> ToRadians(r.ret.dq[i])]]]

get_position(l, d, f) == get_feedback(l, d, f)

init_force_mode(l, d, f) == InitForceMode(l, d, f)

\* Mutant: the position-mode switch sends the force-mode command.
init_position_mode_as_force(l, d, f) == InitForceMode(l, d, f)

init_position_mode(l, d, f) == InitPositionMode(l, d, f)

send_forces(l, u, d, f) == ApplyU(l, u, d, f)

\* Mutant: the factor is floor-divided, q * (180 // np.pi), i.e. q * 57.
send_target_angles_floor_factor(l, q, d, f) ==
  ApplyQ(l, [i \in 1..N_JOINTS |-> RoundDiv(q[i] * 57, 10000)], d, f)

send_target_angles(l, q, d, f) ==
  ApplyQ(l, [i \in 1..N_JOINTS |-> ToDegrees(q[i])], d, f)

\* ------------------------------------------------- control-loop drivers
VARIABLES
  script,      \* which program runs: a driver script, or a free caller
  pc,          \* the statement the program is at
  link,        \* the hardware link behind the interface
  log,         \* every call made so far, in order
  warm,        \* the controller's functions have been generated
  faults,      \* faults injected so far
  nominal,     \* no call of the run has stalled so far
  ticks,       \* ticks started
  elapsed,     \* timeit.default_timer() - start within the current tick
  loop_time,   \* loop_time (adaptive_reach) / run_time (speed test)
  time_track,  \* the recorded tick durations (speed test)
  error_track, \* the recorded tracking errors (adaptive_reach)
  feedback,    \* the feedback dictionary last returned to the program
  caught,      \* the except clause has printed a traceback
  interrupt,   \* KeyboardInterrupt: "none", "caught" or "pending"
  u_base,      \* the controller's command, stiction-compensated in place
  u_adapt,     \* the adaptive correction, padded to all joints
  u,           \* the command handed to send_forces
  verdict,     \* what the speed test printed about its average tick
  outcome      \* "running", then "completed" or "uncaught"

vars == <<script, pc, link, log, warm, faults, nominal, ticks, elapsed,
          loop_time, time_track, error_track, feedback, caught, interrupt,
          u_base, u_adapt, u, verdict, outcome>>

Scripts == {"adaptive_reach", "control_loop_speed_test"}

\* robot_config.INIT_TORQUE_POSITION, the home pose (1e-4 rad)
INIT_TORQUE_POSITION == <<0, 27900, 26200, 47100, 0, 30400>>

\* Mutant: force mode is initialised right after connect, before the arm is
\* put in position mode and sent home.
Program_ForceFirst(s) ==
  IF s = "adaptive_reach"
  THEN << "prewarm", "connect", "init_force_mode", "init_position_mode",
          "send_target_angles", "feedback0", "feedback1", "Tx0",
          "while", "path_step", "get_feedback", "Tx", "generate", "stiction",
          "adapt", "send_forces", "record",
          "except",
          "fin_init_position_mode", "fin_send_target_angles",
          "fin_disconnect", "exit" >>
  ELSE << "prewarm", "connect", "init_force_mode", "init_position_mode",
          "send_target_angles",
          "while", "get_feedback", "generate", "send_forces", "record",
          "except",
          "fin_init_position_mode", "fin_send_target_angles",
          "fin_disconnect", "verdict",
          "exit" >>

\* The loop body with the planner stepped after the tick's feedback was read.
Program_FeedbackFirst(s) ==
  IF s = "adaptive_reach"
  THEN << "prewarm", "connect", "init_position_mode", "send_target_angles",
          "init_force_mode", "feedback0", "feedback1", "Tx0",
          "while", "get_feedback", "path_step", "Tx", "generate", "stiction",
          "adapt", "send_forces", "record",
          "except",
          "fin_init_position_mode", "fin_send_target_angles",
          "fin_disconnect", "exit" >>
  ELSE << "prewarm", "connect", "init_position_mode", "send_target_angles",
          "init_force_mode",
          "while", "get_feedback", "generate", "send_forces", "record",
          "except",
          "fin_init_position_mode", "fin_send_target_angles",
          "fin_disconnect", "verdict",
          "exit" >>

\* Mutant: the home target is sent before position mode is initialised.
Program_TargetFirst(s) ==
  IF s = "adaptive_reach"
  THEN << "prewarm", "connect", "send_target_angles", "init_position_mode",
          "init_force_mode", "feedback0", "feedback1", "Tx0",
          "while", "path_step", "get_feedback", "Tx", "generate", "stiction",
          "adapt", "send_forces", "record",
          "except",
          "fin_init_position_mode", "fin_send_target_angles",
          "fin_disconnect", "exit" >>
  ELSE << "prewarm", "connect", "send_target_angles", "init_position_mode",
          "init_force_mode",
          "while", "get_feedback", "generate", "send_forces", "record",
          "except",
          "fin_init_position_mode", "fin_send_target_angles",
          "fin_disconnect", "verdict",
          "exit" >>

\* Mutant: the finally block releases the link before it sends the home target.
Program_DisconnectEarly(s) ==
  IF s = "adaptive_reach"
  THEN << "prewarm", "connect", "init_position_mode", "send_target_angles",
          "init_force_mode", "feedback0", "feedback1", "Tx0",
          "while", "path_step", "get_feedback", "Tx", "generate", "stiction",
          "adapt", "send_forces", "record",
          "except",
          "fin_init_position_mode", "fin_disconnect",
          "fin_send_target_angles", "exit" >>
  ELSE << "prewarm", "connect", "init_position_mode", "send_target_angles",
          "init_force_mode",
          "while", "get_feedback", "generate", "send_forces", "record",
          "except",
          "fin_init_position_mode", "fin_disconnect",
          "fin_send_target_angles", "verdict",
          "exit" >>

\* The statements of a script, in program order.
Program(s) ==
  IF s = "adaptive_reach"
  THEN << "prewarm", "connect", "init_position_mode", "send_target_angles",
          "init_force_mode", "feedback0", "feedback1", "Tx0",
          "while", "path_step", "get_feedback", "Tx", "generate", "stiction",
          "adapt", "send_forces", "record",
          "except",
          "fin_init_position_mode", "fin_send_target_angles",
          "fin_disconnect", "exit" >>
  ELSE << "prewarm", "connect", "init_position_mode", "send_target_angles",
          "init_force_mode",
          "while", "get_feedback", "generate", "send_forces", "record",
          "except",
          "fin_init_position_mode", "fin_send_target_angles",
          "fin_disconnect", "verdict",
          "exit" >>

\* The statements before the try block, inside it, inside the while loop, and
\* inside the finally block.
Startup == {"prewarm", "connect", "init_position_mode", "send_target_angles"}

LoopBody == {"path_step", "get_feedback", "Tx", "generate", "stiction",
             "adapt", "send_forces", "record"}

TryBody == {"init_force_mode", "feedback0", "feedback1", "Tx0", "while"}
             \cup LoopBody

Finally == {"fin_init_position_mode", "fin_send_target_angles",
            "fin_disconnect"}

Index(s, p) == CHOOSE i \in DOMAIN Program(s) : Program(s)[i] = p

\* The statement that runs after p returns normally.
After(s, p) ==
  IF p = "record" THEN "while"
  ELSE IF p = "except" THEN "fin_init_position_mode"
  ELSE Program(s)[Index(s, p) + 1]

\* Mutant: the loop is not wrapped in try/finally, so any exception leaves
\* the script.
Handler_NoTry(p) == "exit"

\* Mutant: a statement of the loop body that raises is tried again.
Handler_Retry(p) ==
  IF p \in LoopBody THEN p
  ELSE IF p \in TryBody THEN "except" ELSE "exit"

\* Where control goes when statement p raises: to the except clause from
\* inside the try block, out of the script from anywhere else.
Handler(p) == IF p \in TryBody THEN "except" ELSE "exit"

\* The latency of the controller: its first call generates its functions.
FirstCallOverhead == CommandWindow

ControllerLatency(w, d) == IF w THEN d ELSE d + FirstCallOverhead

\* An external computation (planner, controller, kinematics, adaptation): it
\* touches no link state, takes d and may throw.
Compute(l, d, f) == [link |-> Elapse(l, d), raised |-> f, ret |-> << >>]

FaultChoices == IF faults < MaxFaults THEN BOOLEAN ELSE {FALSE}

\* What the log keeps of a call: the operation, the statement that made it, its
\* argument, whether a fault was injected, whether it returned normally, what
\* it returned, and the link's mode and fallback count before and after.
Entry(op, at, arg, f, l, res) ==
  [op |-> op, at |-> at, arg |-> arg, f |-> f, ok |-> ~res.raised,
   ret |-> res.ret, mode0 |-> l.mode, mode1 |-> res.link.mode,
   fb0 |-> l.fallbacks, fb1 |-> res.link.fallbacks]

\* Where control goes when statement p returns: to the next statement, or,
\* when the finally block ends with an exception still propagating, out of
\* the script.
Continue(p) ==
  IF p = "fin_disconnect" /\ interrupt = "pending" THEN "exit"
  ELSE After(script, p)

\* One statement of the script made its call: the call is logged, the link
\* moves on, and control goes to the next statement or to the handler.
Call(op, arg, res, d, drawn, f) ==
  /\ log' = Append(log, Entry(op, pc, arg, f, link, res))
  /\ link' = res.link
  /\ faults' = faults + (IF f THEN 1 ELSE 0)
  /\ nominal' = (nominal /\ drawn <= Nominal)
  /\ elapsed' = IF pc \in LoopBody THEN elapsed + d ELSE 0
  /\ pc' = IF res.raised THEN Handler(pc) ELSE Continue(pc)
  /\ outcome' = IF res.raised
                THEN (IF Handler(pc) = "exit" THEN "uncaught" ELSE outcome)
                ELSE (IF Continue(pc) = "exit"
                      THEN (IF interrupt = "pending" THEN "uncaught"
                            ELSE "completed")
                      ELSE outcome)

TypeOK ==
  /\ script \in Scripts \cup {"caller"}
  /\ link.mode \in Modes
  /\ outcome \in {"running", "completed", "uncaught"}

Init ==
  /\ script \in Scripts
  /\ pc = "prewarm"
  /\ link \in {LinkInit(p) : p \in RawReadings}
  /\ log = << >>
  /\ warm = FALSE
  /\ faults = 0
  /\ nominal = TRUE
  /\ ticks = 0
  /\ elapsed = 0
  /\ loop_time = 0
  /\ time_track = << >>
  /\ error_track = << >>
  /\ feedback = << >>
  /\ caught = FALSE
  /\ interrupt = "none"
  /\ u_base = << >>
  /\ u_adapt = << >>
  /\ u = << >>
  /\ verdict = "none"
  /\ outcome = "running"

\* Mutant: the script does not run the controller before connecting.
PreWarm_Skipped ==
  /\ pc = "prewarm"
  /\ pc' = After(script, pc)
  /\ UNCHANGED <<script, link, log, warm, faults, nominal, ticks, elapsed,
                 loop_time, time_track, error_track, feedback, caught, interrupt, u_base, u_adapt, u, outcome, verdict>>

\* adaptive_reach.py 41-45, control_loop_speed_test.py 17-18: run the
\* controller once on zeros, outside the loop.
PreWarm ==
  /\ pc = "prewarm"
  /\ \E d \in Latencies, f \in FaultChoices :
       /\ Call("prewarm", << >>, Compute(link, ControllerLatency(warm, d), f),
               ControllerLatency(warm, d), d, f)
       /\ warm' = ~f
  /\ UNCHANGED <<script, ticks, loop_time, time_track, error_track, feedback, caught, interrupt, u_base, u_adapt, u, verdict>>

\* interface.connect()
DoConnect ==
  /\ pc = "connect"
  /\ \E d \in Latencies, f \in FaultChoices :
       Call("connect", << >>, connect(link, d, f), d, d, f)
  /\ UNCHANGED <<script, warm, ticks, loop_time, time_track, error_track, feedback, caught, interrupt, u_base, u_adapt, u, verdict>>

\* interface.init_position_mode(), before the try block
StartupInitPositionMode ==
  /\ pc = "init_position_mode"
  /\ \E d \in Latencies, f \in FaultChoices :
       Call("init_position_mode", << >>, init_position_mode(link, d, f), d, d, f)
  /\ UNCHANGED <<script, warm, ticks, loop_time, time_track, error_track, feedback, caught, interrupt, u_base, u_adapt, u, verdict>>

\* interface.send_target_angles(robot_config.INIT_TORQUE_POSITION), before
\* the try block
StartupSendTargetAngles ==
  /\ pc = "send_target_angles"
  /\ \E d \in Latencies, f \in FaultChoices :
       Call("send_target_angles", INIT_TORQUE_POSITION,
            send_target_angles(link, INIT_TORQUE_POSITION, d, f), d, d, f)
  /\ UNCHANGED <<script, warm, ticks, loop_time, time_track, error_track, feedback, caught, interrupt, u_base, u_adapt, u, verdict>>

\* interface.init_force_mode(), the first statement of the try block
DoInitForceMode ==
  /\ pc = "init_force_mode"
  /\ \E d \in Latencies, f \in FaultChoices :
       Call("init_force_mode", << >>, init_force_mode(link, d, f), d, d, f)
  /\ UNCHANGED <<script, warm, ticks, loop_time, time_track, error_track, feedback, caught, interrupt, u_base, u_adapt, u, verdict>>

\* adaptive_reach.py 75 and 80: feedback = interface.get_feedback(), twice,
\* before the loop
InitialFeedback ==
  /\ pc \in {"feedback0", "feedback1"}
  /\ \E d \in Latencies, f \in FaultChoices :
       LET res == get_feedback(link, d, f)
       IN  /\ Call("get_feedback", << >>, res, d, d, f)
           /\ feedback' = IF res.raised THEN feedback ELSE res.ret
  /\ UNCHANGED <<script, warm, ticks, loop_time, time_track, error_track, caught, interrupt, u_base, u_adapt, u, verdict>>

\* adaptive_reach.py 82: ee_xyz = robot_config.Tx('EE', ...)
InitialTx ==
  /\ pc = "Tx0"
  /\ \E d \in Latencies, f \in FaultChoices :
       Call("Tx", << >>, Compute(link, ControllerLatency(warm, d), f),
            ControllerLatency(warm, d), d, f)
  /\ UNCHANGED <<script, warm, ticks, loop_time, time_track, error_track, feedback, caught, interrupt, u_base, u_adapt, u, verdict>>

\* The time budget of the script's loop.
Budget(s) == IF s = "adaptive_reach" THEN time_limit ELSE run_limit

\* while loop_time < time_limit: the next tick starts
\* (start = timeit.default_timer()), or the loop is left for the finally block.
LoopTest ==
  /\ pc = "while"
  /\ \/ /\ loop_time < Budget(script)
        /\ ticks < MaxTicks
        /\ ticks' = ticks + 1
        /\ pc' = After(script, "while")
     \/ /\ loop_time >= Budget(script)
        /\ ticks' = ticks
        /\ pc' = "fin_init_position_mode"
  /\ elapsed' = 0
  /\ UNCHANGED <<script, link, log, warm, faults, nominal, loop_time,
                 time_track, error_track, feedback, caught, interrupt, u_base, u_adapt, u, outcome, verdict>>

\* adaptive_reach.py 90: filtered_target = path.step(...)
PathStep ==
  /\ pc = "path_step"
  /\ \E d \in Latencies, f \in FaultChoices :
       Call("path_step", << >>, Compute(link, d, f), d, d, f)
  /\ UNCHANGED <<script, warm, ticks, loop_time, time_track, error_track, feedback, caught, interrupt, u_base, u_adapt, u, verdict>>

\* feedback = interface.get_feedback() inside the loop
TickGetFeedback ==
  /\ pc = "get_feedback"
  /\ \E d \in Latencies, f \in FaultChoices :
       LET res == get_feedback(link, d, f)
       IN  /\ Call("get_feedback", << >>, res, d, d, f)
           /\ feedback' = IF res.raised THEN feedback ELSE res.ret
  /\ UNCHANGED <<script, warm, ticks, loop_time, time_track, error_track, caught, interrupt, u_base, u_adapt, u, verdict>>

\* adaptive_reach.py 97: ee_xyz = robot_config.Tx('EE', q=q, ...)
TickTx ==
  /\ pc = "Tx"
  /\ \E d \in Latencies, f \in FaultChoices :
       Call("Tx", << >>, Compute(link, ControllerLatency(warm, d), f),
            ControllerLatency(warm, d), d, f)
  /\ UNCHANGED <<script, warm, ticks, loop_time, time_track, error_track, feedback, caught, interrupt, u_base, u_adapt, u, verdict>>

\* The commands the controller can produce (torques, in mNm): joint 0 pushed
\* forward, at rest, and pushed back.
BaseCommands ==
  { <<400, 150, -250, 30, -20, 10>>,
    <<0, -100, 200, 0, 5, -5>>,
    <<-300, 50, 0, -40, 60, 0>> }

\* The output of the adaptive controller for joints 1 and 2.
AdaptOutputs == { <<25, -35>> }

\* Mutant: the stiction factor does not depend on the direction.
StictionCompensation_OneFactor(b) == [b EXCEPT ![1] = b[1] * 3]

\* adaptive_reach.py 108-111: if u_base[0] > 0: u_base[0] *= 3.0
\*                            else: u_base[0] *= 2.0
StictionCompensation(b) ==
  [b EXCEPT ![1] = IF b[1] > 0 THEN b[1] * 3 ELSE b[1] * 2]

\* adaptive_reach.py 123-128: np.array([0, u_adapt[0], u_adapt[1], 0, 0, 0])
PadAdapt(a) == <<0, a[1], a[2], 0, 0, 0>>

\* adaptive_reach.py 129: u = u_base + u_adapt
VectorSum(x, y) == [i \in 1..N_JOINTS |-> x[i] + y[i]]

\* u = ctrlr.generate(q=feedback['q'], dq=feedback['dq'], ...)
Generate ==
  /\ pc = "generate"
  /\ \E d \in Latencies, f \in FaultChoices, b \in BaseCommands :
       LET res == [Compute(link, ControllerLatency(warm, d), f)
                     EXCEPT !.ret = IF f THEN << >> ELSE b]
       IN  /\ Call("generate", << >>, res, ControllerLatency(warm, d), d, f)
           /\ u_base' = IF f \/ script # "adaptive_reach" THEN u_base ELSE b
           /\ u' = IF f \/ script = "adaptive_reach" THEN u ELSE b
  /\ UNCHANGED <<script, warm, ticks, loop_time, time_track, error_track,
                 feedback, caught, interrupt, u_adapt, verdict>>

\* adaptive_reach.py 108-111: the stiction scaling of u_base[0]
Stiction ==
  /\ pc = "stiction"
  /\ Call("stiction", << >>, Compute(link, 0, FALSE), 0, 0, FALSE)
  /\ u_base' = StictionCompensation(u_base)
  /\ UNCHANGED <<script, warm, ticks, loop_time, time_track, error_track,
                 feedback, caught, interrupt, u_adapt, u, verdict>>

\* adaptive_reach.py 114-129: u_adapt = adapt.generate(...), padded with
\* zeros to all joints; u = u_base + u_adapt
Adapt ==
  /\ pc = "adapt"
  /\ \E d \in Latencies, f \in FaultChoices, a \in AdaptOutputs :
       LET res == [Compute(link, d, f) EXCEPT !.ret = IF f THEN << >> ELSE a]
       IN  /\ Call("adapt", << >>, res, d, d, f)
           /\ u_adapt' = IF f THEN u_adapt ELSE PadAdapt(a)
           /\ u' = IF f THEN u ELSE VectorSum(u_base, PadAdapt(a))
  /\ UNCHANGED <<script, warm, ticks, loop_time, time_track, error_track,
                 feedback, caught, interrupt, u_base, verdict>>

\* interface.send_forces(np.array(u, dtype='float32'))
SendForces ==
  /\ pc = "send_forces"
  /\ \E d \in Latencies, f \in FaultChoices :
       Call("send_forces", u, send_forces(link, u, d, f), d, d, f)
  /\ UNCHANGED <<script, warm, ticks, loop_time, time_track, error_track,
                 feedback, caught, interrupt, u_base, u_adapt, u, verdict>>

\* Mutant: the tick's duration is not added to the loop time.
Record_NoAccumulate ==
  /\ pc = "record"
  /\ loop_time' = loop_time
  /\ time_track' = IF script = "control_loop_speed_test"
                   THEN Append(time_track, elapsed) ELSE time_track
  /\ error_track' = IF script = "adaptive_reach"
                    THEN Append(error_track, "error") ELSE error_track
  /\ log' = Append(log, Entry("record", pc, << >>, FALSE, link, Done(link)))
  /\ elapsed' = 0
  /\ pc' = After(script, "record")
  /\ UNCHANGED <<script, link, warm, faults, nominal, ticks, feedback, caught,
                 interrupt, u_base, u_adapt, u, outcome, verdict>>

\* The end of a tick: the tick's duration is added to the loop time; the speed
\* test appends it to time_track.
Record ==
  /\ pc = "record"
  /\ loop_time' = loop_time + elapsed
  /\ time_track' = IF script = "control_loop_speed_test"
                   THEN Append(time_track, elapsed) ELSE time_track
  /\ error_track' = IF script = "adaptive_reach"
                    THEN Append(error_track, "error") ELSE error_track
  /\ log' = Append(log, Entry("record", pc, << >>, FALSE, link, Done(link)))
  /\ elapsed' = 0
  /\ pc' = After(script, "record")
  /\ UNCHANGED <<script, link, warm, faults, nominal, ticks, feedback, caught, interrupt, u_base, u_adapt, u,
                 outcome, verdict>>

\* except: print(traceback.format_exc())
Except ==
  /\ pc = "except"
  /\ caught' = TRUE
  /\ pc' = After(script, "except")
  /\ UNCHANGED <<script, link, log, warm, faults, nominal, ticks, elapsed,
                 loop_time, time_track, error_track, feedback, interrupt, u_base, u_adapt, u,
                 outcome, verdict>>

\* finally: interface.init_position_mode()
FinallyInitPositionMode ==
  /\ pc = "fin_init_position_mode"
  /\ \E d \in Latencies, f \in FaultChoices :
       Call("init_position_mode", << >>, init_position_mode(link, d, f), d, d, f)
  /\ UNCHANGED <<script, warm, ticks, loop_time, time_track, error_track, feedback, caught, interrupt, u_base, u_adapt, u, verdict>>

\* finally: interface.send_target_angles(robot_config.INIT_TORQUE_POSITION)
FinallySendTargetAngles ==
  /\ pc = "fin_send_target_angles"
  /\ \E d \in Latencies, f \in FaultChoices :
       Call("send_target_angles", INIT_TORQUE_POSITION,
            send_target_angles(link, INIT_TORQUE_POSITION, d, f), d, d, f)
  /\ UNCHANGED <<script, warm, ticks, loop_time, time_track, error_track, feedback, caught, interrupt, u_base, u_adapt, u, verdict>>

\* finally: interface.disconnect()
FinallyDisconnect ==
  /\ pc = "fin_disconnect"
  /\ \E d \in Latencies, f \in FaultChoices :
       Call("disconnect", << >>, disconnect(link, d, f), d, d, f)
  /\ UNCHANGED <<script, warm, ticks, loop_time, time_track, error_track, feedback, caught, interrupt, u_base, u_adapt, u, verdict>>

\* control_loop_speed_test.py 59-72: avg_loop = np.mean(time_track), then
\* `if avg_loop > 0.005 ... elif avg_loop > 0.0035 ... else ...`.  The mean of
\* an empty array is nan, and every comparison with nan is false.
MeanExceeds(track, limit) ==
  track # << >> /\ SumSeq(track) > limit * Len(track)

Verdict(track) ==
  IF MeanExceeds(track, WarnLimit) THEN "warning"
  ELSE IF MeanExceeds(track, NoticeLimit) THEN "notice"
  ELSE "within"

\* The speed test reports on its average tick once the finally block is done.
ReportVerdict ==
  /\ pc = "verdict"
  /\ verdict' = Verdict(time_track)
  /\ pc' = After(script, "verdict")
  /\ outcome' = "completed"
  /\ UNCHANGED <<script, link, log, warm, faults, nominal, ticks, elapsed,
                 loop_time, time_track, error_track, feedback, caught,
                 interrupt, u_base, u_adapt, u>>

Next ==
  \/ PreWarm
  \/ DoConnect
  \/ StartupInitPositionMode
  \/ StartupSendTargetAngles
  \/ DoInitForceMode
  \/ InitialFeedback
  \/ InitialTx
  \/ LoopTest
  \/ PathStep
  \/ TickGetFeedback
  \/ TickTx
  \/ Generate
  \/ Stiction
  \/ Adapt
  \/ SendForces
  \/ Record
  \/ Except
  \/ FinallyInitPositionMode
  \/ FinallySendTargetAngles
  \/ FinallyDisconnect
  \/ ReportVerdict

Spec == Init /\ [][Next]_vars

\* The script is one sequential thread and every call of the model returns
\* or raises after a finite latency, so a statement that can run does run.
\* The arm's pose takes no part in how long a run lasts: one pose is followed.
InitLive == Init /\ link.pose = CHOOSE p \in RawReadings : TRUE

SpecLive == InitLive /\ [][Next]_vars /\ WF_vars(Next)

\* ------------------------------------------- the interface, called freely
\* A caller that invokes the interface's methods in any order, as the
\* abr_control interface contract allows.
InitIface ==
  /\ script = "caller"
  /\ pc = "caller"
  /\ link \in {LinkInit(p) : p \in RawReadings}
  /\ log = << >>
  /\ warm = FALSE
  /\ faults = 0
  /\ nominal = TRUE
  /\ ticks = 0
  /\ elapsed = 0
  /\ loop_time = 0
  /\ time_track = << >>
  /\ error_track = << >>
  /\ feedback = << >>
  /\ caught = FALSE
  /\ interrupt = "none"
  /\ u_base = << >>
  /\ u_adapt = << >>
  /\ u = << >>
  /\ verdict = "none"
  /\ outcome = "running"

\* Joint angle vectors (1e-4 rad) a caller may send as a position target.
Targets ==
  { INIT_TORQUE_POSITION,
    <<0, 0, 0, 0, 0, 0>>,
    <<15708, 31416, 47124, 62831, 1, 40000>> }

Invoke(op, arg, res, d, f) ==
  /\ Len(log) < MaxCalls
  /\ log' = Append(log, Entry(op, pc, arg, f, link, res))
  /\ link' = res.link
  /\ faults' = faults + (IF f THEN 1 ELSE 0)
  /\ nominal' = (nominal /\ d <= Nominal)
  /\ UNCHANGED <<script, pc, warm, ticks, elapsed, loop_time, time_track, error_track,
                 caught, interrupt, u_base, u_adapt, u, outcome, verdict>>

CallConnect ==
  /\ script = "caller"
  /\ \E d \in Latencies, f \in FaultChoices :
       Invoke("connect", << >>, connect(link, d, f), d, f)
  /\ UNCHANGED feedback

CallDisconnect ==
  /\ script = "caller"
  /\ \E d \in Latencies, f \in FaultChoices :
       Invoke("disconnect", << >>, disconnect(link, d, f), d, f)
  /\ UNCHANGED feedback

CallGetFeedback ==
  /\ script = "caller"
  /\ \E d \in Latencies, f \in FaultChoices :
       LET res == get_feedback(link, d, f)
       IN  /\ Invoke("get_feedback", << >>, res, d, f)
           /\ feedback' = IF res.raised THEN feedback ELSE res.ret

CallGetPosition ==
  /\ script = "caller"
  /\ \E d \in Latencies, f \in FaultChoices :
       LET res == get_position(link, d, f)
       IN  /\ Invoke("get_position", << >>, res, d, f)
           /\ feedback' = IF res.raised THEN feedback ELSE res.ret

CallInitForceMode ==
  /\ script = "caller"
  /\ \E d \in Latencies, f \in FaultChoices :
       Invoke("init_force_mode", << >>, init_force_mode(link, d, f), d, f)
  /\ UNCHANGED feedback

CallInitPositionMode ==
  /\ script = "caller"
  /\ \E d \in Latencies, f \in FaultChoices :
       Invoke("init_position_mode", << >>, init_position_mode(link, d, f), d, f)
  /\ UNCHANGED feedback

CallSendForces ==
  /\ script = "caller"
  /\ \E d \in Latencies, f \in FaultChoices :
       Invoke("send_forces", << >>, send_forces(link, << >>, d, f), d, f)
  /\ UNCHANGED feedback

CallSendTargetAngles ==
  /\ script = "caller"
  /\ \E q \in Targets, d \in Latencies, f \in FaultChoices :
       Invoke("send_target_angles", q, send_target_angles(link, q, d, f), d, f)
  /\ UNCHANGED feedback

NextIface ==
  \/ CallConnect
  \/ CallDisconnect
  \/ CallGetFeedback
  \/ CallGetPosition
  \/ CallInitForceMode
  \/ CallInitPositionMode
  \/ CallSendForces
  \/ CallSendTargetAngles

SpecIface == InitIface /\ [][NextIface]_vars

\* ------------------------------------------- the position round trip
\* The scenario connect, init_position_mode, send_target_angles(q), the arm
\* converging on the target, get_feedback.
RoundTripProgram ==
  << "rt_connect", "rt_init_position_mode", "rt_send_target_angles",
     "rt_converge", "rt_get_feedback", "exit" >>

RoundTripAfter(p) ==
  RoundTripProgram[(CHOOSE i \in DOMAIN RoundTripProgram :
                      RoundTripProgram[i] = p) + 1]

\* The targets of the scenario: the caller's, and one with negative angles
\* and angles of a full turn or more.
RoundTripTargets ==
  Targets \cup { <<-5000, 70000, 62832, 125664, -62832, 31416>>,
                 <<1, 175, 10000, 20000, 52360, 62000>> }

InitRoundTrip ==
  /\ script = "round_trip"
  /\ pc = "rt_connect"
  /\ link \in {LinkInit(p) : p \in RawReadings}
  /\ log = << >>
  /\ warm = FALSE
  /\ faults = 0
  /\ nominal = TRUE
  /\ ticks = 0
  /\ elapsed = 0
  /\ loop_time = 0
  /\ time_track = << >>
  /\ error_track = << >>
  /\ feedback = << >>
  /\ caught = FALSE
  /\ interrupt = "none"
  /\ u_base = << >>
  /\ u_adapt = << >>
  /\ u = << >>
  /\ verdict = "none"
  /\ outcome = "running"

\* One call of the scenario: a call that raises ends it.
RoundTripCall(op, arg, res, d, f) ==
  /\ log' = Append(log, Entry(op, pc, arg, f, link, res))
  /\ link' = res.link
  /\ faults' = faults + (IF f THEN 1 ELSE 0)
  /\ nominal' = (nominal /\ d <= Nominal)
  /\ pc' = IF res.raised THEN "exit" ELSE RoundTripAfter(pc)
  /\ outcome' = IF res.raised THEN "uncaught"
                ELSE IF RoundTripAfter(pc) = "exit" THEN "completed"
                ELSE outcome
  /\ UNCHANGED <<script, warm, ticks, elapsed, loop_time, time_track, error_track, caught, interrupt, u_base, u_adapt, u, verdict>>

RoundTripConnect ==
  /\ pc = "rt_connect"
  /\ \E d \in Latencies, f \in FaultChoices :
       RoundTripCall("connect", << >>, connect(link, d, f), d, f)
  /\ UNCHANGED feedback

RoundTripInitPositionMode ==
  /\ pc = "rt_init_position_mode"
  /\ \E d \in Latencies, f \in FaultChoices :
       RoundTripCall("init_position_mode", << >>,
                     init_position_mode(link, d, f), d, f)
  /\ UNCHANGED feedback

RoundTripSendTargetAngles ==
  /\ pc = "rt_send_target_angles"
  /\ \E q \in RoundTripTargets, d \in Latencies, f \in FaultChoices :
       RoundTripCall("send_target_angles", q,
                     send_target_angles(link, q, d, f), d, f)
  /\ UNCHANGED feedback

\* The on-board PD controller has brought the arm to the position target and
\* to rest.
Converge ==
  /\ pc = "rt_converge"
  /\ link.mode = "PositionControl"
  /\ link.target # NoTarget
  /\ link' = [link EXCEPT !.pose = [q  |-> link.target,
                                    dq |-> [i \in 1..N_JOINTS |-> 0]]]
  /\ log' = Append(log, Entry("converge", pc, << >>, FALSE, link,
                              Done(link')))
  /\ pc' = RoundTripAfter(pc)
  /\ UNCHANGED <<script, warm, faults, nominal, ticks, elapsed, loop_time,
                 time_track, error_track, feedback, caught, interrupt, u_base, u_adapt, u, outcome, verdict>>

RoundTripGetFeedback ==
  /\ pc = "rt_get_feedback"
  /\ \E d \in Latencies, f \in FaultChoices :
       LET res == get_feedback(link, d, f)
       IN  /\ RoundTripCall("get_feedback", << >>, res, d, f)
           /\ feedback' = IF res.raised THEN feedback ELSE res.ret

NextRoundTrip ==
  \/ RoundTripConnect
  \/ RoundTripInitPositionMode
  \/ RoundTripSendTargetAngles
  \/ Converge
  \/ RoundTripGetFeedback

SpecRoundTrip == InitRoundTrip /\ [][NextRoundTrip]_vars

\* ------------------------------------------------------------ cancellation
\* Neither script polls a stop request: the loop condition reads the time
\* budget only.  An operator stops a run from outside with the interrupt
\* signal, which Python delivers as KeyboardInterrupt at whichever statement
\* is executing.  The bare except of adaptive_reach.py catches it; the
\* `except Exception` of control_loop_speed_test.py does not, so there it
\* runs the finally block and propagates.  Outside the try nothing catches it.
Interrupt ==
  /\ pc # "exit"
  /\ interrupt = "none"
  /\ log' = Append(log, Entry("KeyboardInterrupt", pc, << >>, FALSE, link, Done(link)))
  /\ interrupt' = IF pc \in TryBody /\ script = "adaptive_reach"
                  THEN "caught" ELSE "pending"
  /\ pc' = IF pc \in TryBody
           THEN (IF script = "adaptive_reach" THEN "except"
                 ELSE "fin_init_position_mode")
           ELSE IF pc = "except" THEN "fin_init_position_mode"
           ELSE "exit"
  /\ outcome' = IF pc \in TryBody \cup {"except"} THEN outcome ELSE "uncaught"
  /\ elapsed' = 0
  /\ UNCHANGED <<script, link, warm, faults, nominal, ticks, loop_time,
                 time_track, error_track, feedback, caught, u_base, u_adapt, u, verdict>>

NextCancel ==
  \/ Next
  \/ Interrupt

SpecCancel == Init /\ [][NextCancel]_vars

\* ================================================================ claims
\* The operations that go over the hardware link.
LinkOps == {"connect", "disconnect", "init_position_mode", "init_force_mode",
            "send_forces", "send_target_angles", "get_feedback",
            "get_position"}

\* The link operations issued so far, in order.
LinkLog == SelectSeq(log, LAMBDA e : e.op \in LinkOps)

\* The link operations issued so far end with the shutdown protocol, issued
\* by the finally block: init_position_mode, send_target_angles(home),
\* disconnect.
EndsWithShutdown ==
  LET L == LinkLog
      n == Len(L)
  IN  /\ n >= 3
      /\ L[n - 2].op = "init_position_mode" /\ L[n - 2].at \in Finally
      /\ L[n - 1].op = "send_target_angles" /\ L[n - 1].at \in Finally
      /\ L[n - 1].arg = INIT_TORQUE_POSITION
      /\ L[n].op = "disconnect" /\ L[n].at \in Finally
      /\ \A i \in 1..(n - 3) : L[i].at \notin Finally

TryEntered == \E i \in DOMAIN log : log[i].at = "init_force_mode"

ShutdownFaulted == \E i \in DOMAIN log : log[i].at \in Finally /\ ~log[i].ok

ConnectSucceeded == \E i \in DOMAIN log : log[i].op = "connect" /\ log[i].ok

\* C1: whenever the try block was entered and no statement of the shutdown
\* itself faulted, a finished run (normal completion, or a fault at any
\* statement of the tick body) has issued init_position_mode,
\* send_target_angles(home) and disconnect exactly once each, in that order,
\* and no other link operation after the first of them.
C1_ShutdownAfterLoop ==
  (pc = "exit" /\ TryEntered /\ ~ShutdownFaulted) => EndsWithShutdown

\* C1 witness: send_forces threw inside a tick and the run ended with the
\* shutdown protocol.
C1_Witness ==
  /\ pc = "exit"
  /\ \E i \in DOMAIN log :
       log[i].at = "send_forces" /\ ~log[i].ok
  /\ EndsWithShutdown

\* C2 (as claimed): every finished session whose connect succeeded has
\* ended with the shutdown protocol, the arm back in position control and the
\* link released.
C2_Original ==
  (pc = "exit" /\ ConnectSucceeded) =>
     (EndsWithShutdown /\ link.mode = "Uninitialized")

\* C3 (as claimed): when init_position_mode or send_target_angles(home) fails
\* during shutdown, the run still issues disconnect.
C3_Original ==
  (pc = "exit" /\ \E i \in DOMAIN log :
                    /\ log[i].at \in {"fin_init_position_mode",
                                      "fin_send_target_angles"}
                    /\ ~log[i].ok)
    => \E j \in DOMAIN log : log[j].op = "disconnect"

\* C4 (as claimed): a send_forces issued while the link is not in force
\* control never returns normally, i.e. it is never forwarded as an accepted
\* torque command.
C4_Original ==
  \A i \in DOMAIN log :
     (log[i].op = "send_forces" /\ log[i].mode0 # "ForceControl")
        => ~log[i].ok

\* The last successful init_force_mode before call i (0 when there is none).
LastForceInit(i) ==
  LET J == {j \in 1..(i - 1) : log[j].op = "init_force_mode" /\ log[j].ok}
  IN  IF J = {} THEN 0 ELSE CHOOSE j \in J : \A k \in J : k <= j

\* C5 (as claimed): every send_forces is issued with no watchdog fallback
\* since the last explicit init_force_mode.
C5_Original ==
  \A i \in DOMAIN log :
     log[i].op = "send_forces" =>
        /\ LastForceInit(i) # 0
        /\ log[i].fb0 = log[LastForceInit(i)].fb1

\* C6: in a run whose calls all return within the nominal latency the
\* watchdog never fires, and the time since the last torque command (or since
\* init_force_mode) never exceeds the command window.
C6_NominalKeepsWindow ==
  nominal => (link.fallbacks = 0 /\ link.idle <= CommandWindow)

\* C6 witness: a nominal run that has sent forces in two ticks and is still in
\* force control.
C6_Witness ==
  /\ nominal
  /\ link.mode = "ForceControl"
  /\ \E i, j \in DOMAIN log :
       /\ i < j
       /\ log[i].op = "send_forces" /\ log[i].ok
       /\ log[j].op = "send_forces" /\ log[j].ok

StartupOrder ==
  << "connect", "init_position_mode", "send_target_angles",
     "init_force_mode" >>

\* C7: the first four link operations of a run are connect,
\* init_position_mode, send_target_angles(home), init_force_mode, in that
\* order, and the controller is pre-warmed by the time init_force_mode is
\* issued; so no init_force_mode and no send_forces precedes
\* init_position_mode and the home target.
C7_StartupOrder ==
  LET L == LinkLog
  IN  /\ \A i \in DOMAIN L : i <= 4 => L[i].op = StartupOrder[i]
      /\ Len(L) >= 3 => L[3].arg = INIT_TORQUE_POSITION
      /\ \A i \in DOMAIN log :
            log[i].op \in {"init_force_mode", "send_forces"} =>
               /\ warm
               /\ \E j, k \in 1..(i - 1) :
                    /\ j < k
                    /\ log[j].op = "init_position_mode" /\ log[j].ok
                    /\ log[k].op = "send_target_angles" /\ log[k].ok
                    /\ \E p \in 1..(j - 1) : log[p].op = "prewarm" /\ log[p].ok

\* C7 witness: the startup is complete and a torque command has been sent.
C7_Witness ==
  /\ Len(LinkLog) >= 5
  /\ \E i \in DOMAIN log : log[i].op = "send_forces" /\ log[i].ok

StartupSteps == {"connect", "init_position_mode", "send_target_angles",
                 "init_force_mode"}

\* C8 (as claimed): a run in which a startup step failed executes no tick and
\* ends in an error outcome (the failure reaches the caller).
C8_Original ==
  (pc = "exit" /\ \E i \in DOMAIN log : log[i].at \in StartupSteps /\ ~log[i].ok)
    => (ticks = 0 /\ outcome = "uncaught")

\* The calls that set the link's mode explicitly.
IsSwitch(e) ==
  e.ok /\ e.op \in {"connect", "disconnect", "init_position_mode",
                     "init_force_mode"}

\* C9: the link is in exactly one mode, the one the last explicit switch set
\* (until the watchdog's own fallback): a successful init_position_mode leaves
\* PositionControl whatever the mode before, so init_force_mode followed
\* immediately by init_position_mode leaves PositionControl; and
\* init_position_mode called in PositionControl with a working transport
\* raises no error and leaves PositionControl.
C9_ModeSwitch ==
  /\ link.mode \in Modes
  /\ \A i \in DOMAIN log :
       /\ (log[i].op = "init_position_mode" /\ log[i].ok)
             => log[i].mode1 = "PositionControl"
       /\ (log[i].op = "init_force_mode" /\ log[i].ok)
             => log[i].mode1 = "ForceControl"
       /\ (log[i].op = "init_position_mode" /\ ~log[i].f
             /\ log[i].mode0 = "PositionControl")
             => (log[i].ok /\ log[i].mode1 = "PositionControl")
  /\ \A i \in DOMAIN log :
       (IsSwitch(log[i]) /\ \A j \in (i + 1)..Len(log) : ~IsSwitch(log[j]))
          => \/ link.mode = log[i].mode1
             \/ /\ log[i].mode1 = "ForceControl"
                /\ link.fallbacks > log[i].fb1
                /\ link.mode = "PositionControl"

\* C9 witness: init_force_mode succeeded, init_position_mode followed
\* immediately and succeeded.
C9_Witness ==
  \E i \in DOMAIN log :
     /\ i + 1 = Len(log)
     /\ log[i].op = "init_force_mode" /\ log[i].ok
     /\ log[i + 1].op = "init_position_mode" /\ log[i + 1].ok
     /\ link.mode = "PositionControl"

Abs(x) == IF x < 0 THEN -x ELSE x

\* rad (1e-4 rad) is deg (degrees) converted, to the nearest unit.
IsRadiansOf(rad, deg) == Abs(rad * 180 - deg * PI) <= 90

\* ret is the conversion of the raw reading: every position is the raw angle
\* in radians brought into [0, 2 pi), every velocity is the raw velocity in
\* radians/sec with its sign, not normalized.
Converted(ret, raw) ==
  \A i \in 1..N_JOINTS :
     /\ 0 <= ret.q[i] /\ ret.q[i] < TWO_PI
     /\ IsRadiansOf(ret.q[i], raw.q[i] % 360)
     /\ IsRadiansOf(ret.dq[i], raw.dq[i])
     /\ (raw.dq[i] > 0) = (ret.dq[i] > 0)
     /\ (raw.dq[i] < 0) = (ret.dq[i] < 0)

\* C10: whatever the arm reports, get_feedback and get_position return the
\* positions in radians within [0, 2 pi) and the velocities in radians/sec,
\* sign and magnitude kept; and get_position returns what get_feedback
\* returns for the same reading.
C10_FeedbackConversion ==
  /\ \A i \in DOMAIN log :
       (log[i].op \in {"get_feedback", "get_position"} /\ log[i].ok)
          => Converted(log[i].ret, link.pose)
  /\ \A i, j \in DOMAIN log :
       (/\ log[i].op = "get_feedback" /\ log[i].ok
        /\ log[j].op = "get_position" /\ log[j].ok)
          => log[i].ret = log[j].ret

\* C10 witness: the arm reports negative angles and angles of a turn or more,
\* and both get_feedback and get_position have returned.
C10_Witness ==
  /\ \E i \in 1..N_JOINTS : link.pose.q[i] < 0
  /\ \E i \in 1..N_JOINTS : link.pose.q[i] >= 360
  /\ \E i, j \in DOMAIN log :
       /\ log[i].op = "get_feedback" /\ log[i].ok
       /\ log[j].op = "get_position" /\ log[j].ok

\* Half a degree, the resolution of the arm's angles, in 1e-4 rad.
Tolerance == PI \div 360 + 1

\* The feedback returned after the arm converged on target q.
RoundTripResult(P(_, _)) ==
  \A i, k, j \in DOMAIN log :
     (/\ i < k /\ k < j
      /\ log[i].op = "send_target_angles" /\ log[i].ok
      /\ log[k].op = "converge"
      /\ log[j].op = "get_feedback" /\ log[j].ok)
       => \A n \in 1..N_JOINTS : P(log[j].ret.q[n], log[i].arg[n])

Near(x, y) == Abs(x - y) <= Tolerance

NearOnCircle(x, y) ==
  LET diff == (x - y) % TWO_PI
  IN  diff <= Tolerance \/ diff >= TWO_PI - Tolerance

\* C11 (as claimed): for every target q, once the arm has converged on q,
\* get_feedback reports q within tolerance.
C11_Original == RoundTripResult(Near)

\* C11 (amended): once the arm has converged on q, get_feedback reports q
\* reduced modulo 2 pi: a value in [0, 2 pi) within tolerance of q on the
\* circle.
C11_RoundTripModulo ==
  RoundTripResult(LAMBDA x, y : 0 <= x /\ x < TWO_PI /\ NearOnCircle(x, y))

\* C11 witness: a target with negative angles was sent, the arm converged
\* and get_feedback returned.
C11_Witness ==
  /\ pc = "exit"
  /\ outcome = "completed"
  /\ \E i \in DOMAIN log :
       /\ log[i].op = "send_target_angles"
       /\ \E n \in 1..N_JOINTS : log[i].arg[n] < 0

\* The ticks that ran to their end.
CompletedTicks == Cardinality({i \in DOMAIN log : log[i].op = "record"})

\* C12 (as claimed): every completed tick has its duration and its tracking
\* error in the telemetry, so a tick longer than the command window can be
\* found there after the run.
C12_Original ==
  /\ Len(time_track) = CompletedTicks
  /\ Len(error_track) = CompletedTicks

\* C13: cancellation is cooperative: the stopping condition is evaluated only
\* at tick boundaries, so a stop request never preempts a tick in flight:
\* once the loop has been left, every tick that started has issued its
\* send_forces unless one of its steps faulted.
SendsIssued == Cardinality({i \in DOMAIN log : log[i].at = "send_forces"})

TickFaulted == \E i \in DOMAIN log : log[i].at \in LoopBody /\ ~log[i].ok

StopRequested == \E i \in DOMAIN log : log[i].op = "KeyboardInterrupt"

C13_Original ==
  pc \notin LoopBody
    => (SendsIssued = ticks \/ TickFaulted)

\* The steps executed inside the while loop so far, in order.
LoopLog == SelectSeq(log, LAMBDA e : e.at \in LoopBody)

\* C14 as stated: the planner is never invoked before the feedback of its
\* tick has been read: every planner step is preceded, within its own tick,
\* by a get_feedback.
C14_Original ==
  \A i \in DOMAIN LoopLog :
    LoopLog[i].at = "path_step"
      => \E j \in 1..(i - 1) :
           /\ LoopLog[j].at = "get_feedback"
           /\ \A k \in j..i : LoopLog[k].at # "record"

TickOrder ==
  IF script = "adaptive_reach"
  THEN << "path_step", "get_feedback", "Tx", "generate", "stiction", "adapt",
          "send_forces", "record" >>
  ELSE << "get_feedback", "generate", "send_forces", "record" >>

\* C14: the steps of every tick run in the order planner step, get_feedback,
\* end-effector position, controller, stiction compensation, adaptive
\* correction, send_forces, telemetry (adaptive_reach.py) or get_feedback,
\* controller, send_forces, duration recording (control_loop_speed_test.py):
\* the planner steps before the tick's feedback is read, and each completed
\* tick has issued exactly one get_feedback and exactly one send_forces.
C14_TickOrder ==
  /\ \A i \in DOMAIN LoopLog :
       LoopLog[i].at = TickOrder[((i - 1) % Len(TickOrder)) + 1]
  /\ \A i \in DOMAIN LoopLog :
       LoopLog[i].op \in {"get_feedback", "send_forces"} => LoopLog[i].op = LoopLog[i].at

C14_Witness ==
  /\ script = "adaptive_reach"
  /\ ticks = 2
  /\ pc = "while"
  /\ Len(LoopLog) = 2 * Len(TickOrder)

ShutdownOps == {"init_position_mode", "send_target_angles", "disconnect"}

\* C15: a link call or external computation that fails during a tick ends the
\* loop and is not retried: control has left the try block for the except
\* clause, the finally block or what follows it, no further tick starts, and every call logged after the
\* failing one is a shutdown operation issued by the finally block (so no
\* further get_feedback or send_forces).
C15_FaultIsFatal ==
  \A i \in DOMAIN log :
    (log[i].at \in LoopBody /\ ~log[i].ok)
      => /\ pc \notin TryBody
         /\ ticks = Cardinality({k \in 1..i : log[k].at = "record"}) + 1
         /\ \A j \in (i + 1)..Len(log) :
              /\ log[j].at \in Finally
              /\ log[j].op \in ShutdownOps

C15_Witness ==
  /\ pc = "exit"
  /\ \E i \in DOMAIN log :
       /\ log[i].at = "get_feedback" /\ ~log[i].ok
       /\ i < Len(log)
  /\ ticks = 2

ModeInits == {"init_position_mode", "init_force_mode"}

\* Call i was issued while the driver's last mode initialisation was a
\* successful `init`.
IssuedUnder(i, init) ==
  \E j \in 1..(i - 1) :
    /\ log[j].op = init
    /\ log[j].ok
    /\ \A k \in (j + 1)..(i - 1) : log[k].op \notin ModeInits

\* C16: the driver issues send_forces only while its last explicit mode switch
\* is init_force_mode and send_target_angles only while it is
\* init_position_mode, so no position target is sent between init_force_mode
\* and the following init_position_mode.
C16_CommandsMatchMode ==
  /\ \A i \in DOMAIN log :
       /\ log[i].op = "send_forces" => IssuedUnder(i, "init_force_mode")
       /\ log[i].op = "send_target_angles"
            => IssuedUnder(i, "init_position_mode")
  /\ \A i, j \in DOMAIN log :
       (/\ i < j
        /\ log[i].op = "init_force_mode"
        /\ log[j].op = "send_target_angles")
         => \E k \in (i + 1)..(j - 1) : log[k].op = "init_position_mode"

C16_Witness ==
  /\ pc = "exit"
  /\ \E i, j, k \in DOMAIN log :
       /\ i < j /\ j < k
       /\ log[i].op = "send_target_angles" /\ log[i].at \in Startup
       /\ log[j].op = "send_forces"
       /\ log[k].op = "send_target_angles" /\ log[k].at \in Finally

\* The command the claim prescribes for base command b and adaptive outputs a.
TotalCommand(b, a) ==
  [i \in 1..N_JOINTS |->
     IF i = 1 THEN (IF b[1] > 0 THEN 3 * b[1] ELSE 2 * b[1])
     ELSE IF i = 2 THEN b[2] + a[1]
     ELSE IF i = 3 THEN b[3] + a[2]
     ELSE b[i]]

\* C17: the command adaptive_reach.py sends each tick is, for the base command
\* b the controller returned and the outputs a of the adaptive controller in
\* that tick: joint 0 = 3 * b when b is strictly positive and 2 * b otherwise;
\* joints 1 and 2 = b plus the two adaptive outputs; joints 3, 4, 5 = b.
C17_TotalCommand ==
  \A i \in DOMAIN log :
    (script = "adaptive_reach" /\ log[i].at = "send_forces")
      => /\ i > 3
         /\ log[i - 3].at = "generate" /\ log[i - 3].ok
         /\ log[i - 1].at = "adapt" /\ log[i - 1].ok
         /\ log[i].arg = TotalCommand(log[i - 3].ret, log[i - 1].ret)

C17_Witness ==
  /\ script = "adaptive_reach"
  /\ \E i, j \in DOMAIN log :
       /\ log[i].at = "send_forces" /\ log[i].ok /\ log[i].arg[1] = 1200
       /\ log[j].at = "send_forces" /\ log[j].ok /\ log[j].arg[1] = 0
       /\ log[j].arg[2] = -75

BudgetReached == pc = "while" /\ loop_time >= Budget(script)

\* The model follows a run for at most MaxTicks ticks.
TickBoundReached ==
  pc = "while" /\ loop_time < Budget(script) /\ ticks = MaxTicks

\* C18: the tick loop terminates.  The accumulated time is the sum of the
\* recorded tick durations, every completed tick has added a positive
\* duration to it, a tick runs only while it is below the budget, the loop
\* leaves for the shutdown protocol at the first tick boundary where the
\* budget is reached, the run then comes to its end, and no run stays in the
\* loop forever.
C18_Terminates ==
  /\ [](script = "control_loop_speed_test" => loop_time = SumSeq(time_track))
  /\ [](CompletedTicks * Nominal <= loop_time)
  /\ [](pc \in LoopBody => loop_time < Budget(script))
  /\ [][pc = "record" => loop_time' > loop_time]_vars
  /\ [][BudgetReached => (pc' = "fin_init_position_mode" /\ ticks' = ticks)]_vars
  /\ (BudgetReached ~> pc = "exit")
  /\ <>(pc = "exit" \/ TickBoundReached)

C18_Witness ==
  /\ pc = "exit"
  /\ script = "adaptive_reach"
  /\ loop_time >= time_limit
  /\ CompletedTicks = ticks
  /\ EndsWithShutdown

\* C19: the link operations of a session are issued one after another between
\* connect and disconnect: the first is connect, issued once, and nothing
\* follows it unless it succeeded; disconnect, if issued, is the last; and
\* every call starts from the link state the call before it left, so no two
\* are in flight together.
C19_SingleSession ==
  LET L == LinkLog
  IN  /\ L # << >> => L[1].op = "connect"
      /\ Len(L) > 1 => L[1].ok
      /\ \A i \in DOMAIN L :
           /\ L[i].op = "connect" => i = 1
           /\ L[i].op = "disconnect" => i = Len(L)
      /\ \A i \in 1..(Len(log) - 1) :
           /\ log[i + 1].mode0 = log[i].mode1
           /\ log[i + 1].fb0 = log[i].fb1

C19_Witness ==
  /\ pc = "exit"
  /\ Len(LinkLog) > 6
  /\ LinkLog[Len(LinkLog)].op = "disconnect"
  /\ LinkLog[Len(LinkLog)].ok
  /\ \E i \in DOMAIN LinkLog : LinkLog[i].op = "send_forces"

\* C20 as stated: the verdict of the speed test reflects the recorded ticks:
\* "within the recommended limit" only when a tick was recorded and the
\* average is at most 3.5 ms, the notice exactly when the average is above
\* 3.5 ms and at most 5 ms, the warning exactly when it is above 5 ms; so a run
\* that recorded no tick is not reported as within the limit.
C20_Original ==
  verdict # "none"
    => LET n == Len(time_track)
           total == SumSeq(time_track)
       IN  /\ verdict = "within"
                => (n >= 1 /\ total <= NoticeLimit * n)
           /\ verdict = "notice"
                <=> (n >= 1 /\ total > NoticeLimit * n /\ total <= WarnLimit * n)
           /\ verdict = "warning"
                <=> (n >= 1 /\ total > WarnLimit * n)

====
